---- MODULE Spec2Model ----
(***************************************************************************)
(* Battleship board simulation: battleship/models.py (Orientation,         *)
(* Position, Ship), battleship/game.py (Board), battleship/parser.py (the  *)
(* input file) and main.py (the run from input file to output).            *)
(*                                                                         *)
(* Ship objects live in an arena `heap` (handle -> fields); the position   *)
(* map `ships` and the placement list `initial_ships_order` hold handles,  *)
(* so that "is" in the source is equality of handles.                      *)
(***************************************************************************)
EXTENDS Integers, Sequences, FiniteSets, TLC

\* ---------------------------------------------------------------- bounds
MaxSize == 2
MaxShips == 2
MaxSeqLen == 3

\* lines per input file
MaxLines == 5

\* commands per move where the loop of _simulate_move is taken turn by turn
StepMaxSeqLen == 2

\* the inputs of main(): board sizes, operations per input, commands per move
MainMaxSize == 1
MaxOps == 2
MainMaxSeqLen == 1

\* initial ships per input where the end of the run is checked
LiveMaxShips == 1

\* ---------------------------------------------------------------- models.py
Orientation == {"N", "E", "S", "W"}

MoveCommand == {"L", "R", "M"}

\* rotate_left turning clockwise
rotate_left_clockwise(o) ==
    CASE o = "N" -> "E"
      [] o = "E" -> "S"
      [] o = "S" -> "W"
      [] o = "W" -> "N"

rotate_left(o) ==
    CASE o = "N" -> "W"
      [] o = "W" -> "S"
      [] o = "S" -> "E"
      [] o = "E" -> "N"

rotate_right(o) ==
    CASE o = "N" -> "E"
      [] o = "E" -> "S"
      [] o = "S" -> "W"
      [] o = "W" -> "N"

\* to_vector with the y axis pointing down
to_vector_y_down(o) ==
    CASE o = "N" -> <<0, -1>>
      [] o = "E" -> <<1, 0>>
      [] o = "S" -> <<0, 1>>
      [] o = "W" -> <<-1, 0>>

to_vector(o) ==
    CASE o = "N" -> <<0, 1>>
      [] o = "E" -> <<1, 0>>
      [] o = "S" -> <<0, -1>>
      [] o = "W" -> <<-1, 0>>

Position(x, y) == [x |-> x, y |-> y]

move(p, o) == Position(p.x + to_vector(o)[1], p.y + to_vector(o)[2])

Ship(p, o, s) == [position |-> p, orientation |-> o, sunk |-> s]

Ship_rotate_left(s) == [s EXCEPT !.orientation = rotate_left(s.orientation)]

Ship_rotate_right(s) == [s EXCEPT !.orientation = rotate_right(s.orientation)]

move_forward(s) == [s EXCEPT !.position = move(s.position, s.orientation)]

\* sink that forgets the assignment
sink_forgets(s) == s

sink(s) == [s EXCEPT !.sunk = TRUE]

\* ---------------------------------------------------------------- state
VARIABLES
    size,                 \* Board.size
    ships,                \* Board._ships: Position -> ship handle
    initial_ships_order,  \* Board._initial_ships_order: sequence of handles
    heap,                 \* the Ship objects registered so far: handle -> Ship
    call,                 \* the call that has just returned or raised, with its arguments
    raised,               \* the exception that call raised: {} or {BoardError}
    pre,                  \* ships, initial_ships_order and heap when that call began
    arg,                  \* {the Ship passed to add_ship, as it is after the call}, else {}
    pc,                   \* where main() stands; "api" when the board is driven directly
    initial_ships,        \* main: the parsed ships, a sequence of Ship
    ship_index,           \* main: how many of them "for ship in initial_ships" has taken
    operations,           \* main: the parsed operations
    op_index,             \* main: i of "for i, op in enumerate(operations, start=1)"
    output,               \* {the lines written to the output file}, {} before that
    exit_code,            \* {} while running, then {0} or {1}
    lines,                \* list(file) of the input file, <<>> where no file is read
    sim                   \* {} or {_simulate_move in progress: its objects, its
                          \* copy of the ship, the index of its next command}

mainvars ==
    <<pc, initial_ships, ship_index, operations, op_index, output, exit_code, lines, sim>>

vars == <<size, ships, initial_ships_order, heap, call, raised, pre, arg,
          pc, initial_ships, ship_index, operations, op_index, output, exit_code,
          lines, sim>>

\* None of Python: no ship handle
None == 0

BoardError(msg, at, step) == [msg |-> msg, at |-> at, step |-> step]

\* How a call ends: by raising e, or by returning, with the board as it is then
Raise(d, order, hp, e) == [raised |-> {e}, ships |-> d, order |-> order, heap |-> hp]

Return(d, order, hp) == [raised |-> {}, ships |-> d, order |-> order, heap |-> hp]

\* ---------------------------------------------------------------- game.py
\* is_within_bounds with the upper limits included
is_within_bounds_inclusive(sz, position) ==
    0 <= position.x /\ position.x <= sz /\ 0 <= position.y /\ position.y <= sz

is_within_bounds(sz, position) ==
    0 <= position.x /\ position.x < sz /\ 0 <= position.y /\ position.y < sz

\* dict.get on the position map
DictGet(d, position) == IF position \in DOMAIN d THEN d[position] ELSE None

get_ship_at(position) == DictGet(ships, position)

DictDel(d, position) == [k \in (DOMAIN d) \ {position} |-> d[k]]

DictSet(d, position, v) ==
    [k \in (DOMAIN d) \cup {position} |-> IF k = position THEN v ELSE d[k]]

\* add_ship without the test for an occupied position
AddShip_overwrites(sz, d, order, hp, id, s) ==
    IF ~is_within_bounds(sz, s.position)
    THEN Raise(d, order, hp, BoardError("out_of_bounds", s.position, 0))
    ELSE Return(DictSet(d, s.position, id),
                Append(order, id),
                [h \in (DOMAIN hp) \cup {id} |-> IF h = id THEN s ELSE hp[h]])

\* add_ship without the bounds test
AddShip_anywhere(sz, d, order, hp, id, s) ==
    IF s.position \in DOMAIN d
    THEN Raise(d, order, hp, BoardError("occupied", s.position, 0))
    ELSE Return(DictSet(d, s.position, id),
                Append(order, id),
                [h \in (DOMAIN hp) \cup {id} |-> IF h = id THEN s ELSE hp[h]])

\* add_ship that forgets the placement-order list
AddShip_unlisted(sz, d, order, hp, id, s) ==
    IF ~is_within_bounds(sz, s.position)
    THEN Raise(d, order, hp, BoardError("out_of_bounds", s.position, 0))
    ELSE IF s.position \in DOMAIN d
    THEN Raise(d, order, hp, BoardError("occupied", s.position, 0))
    ELSE Return(DictSet(d, s.position, id),
                order,
                [h \in (DOMAIN hp) \cup {id} |-> IF h = id THEN s ELSE hp[h]])

\* Board.add_ship(ship): ship is the object with handle id and fields s
\* (hp[id] = s already when the object is a registered one)
AddShip(sz, d, order, hp, id, s) ==
    IF ~is_within_bounds(sz, s.position)
    THEN Raise(d, order, hp, BoardError("out_of_bounds", s.position, 0))
    ELSE IF s.position \in DOMAIN d
    THEN Raise(d, order, hp, BoardError("occupied", s.position, 0))
    ELSE Return(DictSet(d, s.position, id),
                Append(order, id),
                [h \in (DOMAIN hp) \cup {id} |-> IF h = id THEN s ELSE hp[h]])

\* The object passed to add_ship, after the call: add_ship reads ship.position
\* and str(ship) and assigns no field of it.
AddShipArg(sz, d, order, hp, id, s) == s

\* _simulate_move working on the ship itself instead of a copy
WorkingCopy_alias(hp, start) == [heap |-> hp, handle |-> start]

\* The objects _simulate_move works with: the registered ones plus the copy
\* Ship(position, orientation) it makes of the ship to move (sunk = False).
WorkingCopy(hp, start) ==
    LET tmp == Cardinality(DOMAIN hp) + 1 IN
    [heap |-> [h \in (DOMAIN hp) \cup {tmp} |->
                  IF h = tmp
                  THEN Ship(hp[start].position, hp[start].orientation, FALSE)
                  ELSE hp[h]],
     handle |-> tmp]

\* the loop body with the bounds check of M left out
SimStep_unchecked(sz, hp, cur, command) ==
    CASE command = "L" ->
            [ok |-> TRUE, heap |-> [hp EXCEPT ![cur] = Ship_rotate_left(@)],
             at |-> hp[cur].position]
      [] command = "R" ->
            [ok |-> TRUE, heap |-> [hp EXCEPT ![cur] = Ship_rotate_right(@)],
             at |-> hp[cur].position]
      [] command = "M" ->
            [ok |-> TRUE, heap |-> [hp EXCEPT ![cur] = move_forward(@)],
             at |-> move(hp[cur].position, hp[cur].orientation)]

\* the loop body with the cases L and R swapped
SimStep_swapped(sz, hp, cur, command) ==
    CASE command = "L" ->
            [ok |-> TRUE, heap |-> [hp EXCEPT ![cur] = Ship_rotate_right(@)],
             at |-> hp[cur].position]
      [] command = "R" ->
            [ok |-> TRUE, heap |-> [hp EXCEPT ![cur] = Ship_rotate_left(@)],
             at |-> hp[cur].position]
      [] command = "M" ->
            LET potential_next_pos == move(hp[cur].position, hp[cur].orientation) IN
            IF ~is_within_bounds(sz, potential_next_pos)
            THEN [ok |-> FALSE, heap |-> hp, at |-> potential_next_pos]
            ELSE [ok |-> TRUE, heap |-> [hp EXCEPT ![cur] = move_forward(@)],
                  at |-> potential_next_pos]

\* One command of the loop of _simulate_move, applied to the object cur
SimStep(sz, hp, cur, command) ==
    CASE command = "L" ->
            [ok |-> TRUE, heap |-> [hp EXCEPT ![cur] = Ship_rotate_left(@)],
             at |-> hp[cur].position]
      [] command = "R" ->
            [ok |-> TRUE, heap |-> [hp EXCEPT ![cur] = Ship_rotate_right(@)],
             at |-> hp[cur].position]
      [] command = "M" ->
            LET potential_next_pos == move(hp[cur].position, hp[cur].orientation) IN
            IF ~is_within_bounds(sz, potential_next_pos)
            THEN [ok |-> FALSE, heap |-> hp, at |-> potential_next_pos]
            ELSE [ok |-> TRUE, heap |-> [hp EXCEPT ![cur] = move_forward(@)],
                  at |-> potential_next_pos]

\* for i, command in enumerate(sequence): the error names step i + 1, which is
\* the 1-based index i of this loop
RECURSIVE SimLoop(_, _, _, _, _)
SimLoop(sz, hp, cur, sequence, i) ==
    IF i > Len(sequence)
    THEN [ok |-> TRUE, heap |-> hp, handle |-> cur, step |-> 0,
          at |-> hp[cur].position]
    ELSE LET r == SimStep(sz, hp, cur, sequence[i]) IN
         IF r.ok
         THEN SimLoop(sz, r.heap, cur, sequence, i + 1)
         ELSE [ok |-> FALSE, heap |-> r.heap, handle |-> cur, step |-> i,
               at |-> r.at]

\* _simulate_move refusing a sequence without commands
simulate_move_refuses_empty(sz, hp, start, sequence) ==
    LET w == WorkingCopy(hp, start) IN
    IF sequence = <<>>
    THEN [ok |-> FALSE, heap |-> w.heap, handle |-> w.handle, step |-> 0,
          at |-> hp[start].position]
    ELSE SimLoop(sz, w.heap, w.handle, sequence, 1)

simulate_move(sz, hp, start, sequence) ==
    LET w == WorkingCopy(hp, start) IN
    SimLoop(sz, w.heap, w.handle, sequence, 1)

\* The registered objects as they are after the call (the copy is dropped)
Registered(wh, hp) == [h \in DOMAIN hp |-> wh[h]]

\* the collision test reduced to "the final cell holds a ship"
Collides_any(d, ship_to_move, original_position, final_position) ==
    DictGet(d, final_position) # None

\* apply_move_sequence without a collision test
Collides_never(d, ship_to_move, original_position, final_position) == FALSE

\* The collision test of apply_move_sequence (game.py 131-136)
Collides(d, ship_to_move, original_position, final_position) ==
    LET colliding_ship == DictGet(d, final_position) IN
    /\ final_position # original_position
    /\ colliding_ship # None
    /\ colliding_ship # ship_to_move

\* the map update without the removal of the old entry
CommitShips_keeps_old(d, ship_to_move, original_position, final_position) ==
    IF final_position # original_position
    THEN DictSet(d, final_position, ship_to_move)
    ELSE d

\* the map update removing the old entry before looking where the ship ended
CommitShips_drops(d, ship_to_move, original_position, final_position) ==
    IF final_position # original_position
    THEN DictSet(DictDel(d, original_position), final_position, ship_to_move)
    ELSE DictDel(d, original_position)

\* The map update of apply_move_sequence (game.py 153-160)
CommitShips(d, ship_to_move, original_position, final_position) ==
    IF final_position # original_position
    THEN DictSet(IF DictGet(d, original_position) = ship_to_move
                 THEN DictDel(d, original_position)
                 ELSE d,
                 final_position, ship_to_move)
    ELSE d

\* apply_move_sequence once _simulate_move has ended as simulated: the
\* BoardError passed on, the collision test, the commit (game.py 119-164)
MoveEnd(d, order, hp, ship_to_move, simulated) ==
    LET original_position == hp[ship_to_move].position
        now == Registered(simulated.heap, hp)
        final_position == simulated.heap[simulated.handle].position
        final_orientation == simulated.heap[simulated.handle].orientation
    IN
    IF ~simulated.ok
    THEN Raise(d, order, now,
               BoardError("out_of_bounds", simulated.at, simulated.step))
    ELSE IF Collides(d, ship_to_move, original_position, final_position)
    THEN Raise(d, order, now, BoardError("collision", final_position, 0))
    ELSE Return(CommitShips(d, ship_to_move, original_position, final_position),
                order,
                [now EXCEPT ![ship_to_move] =
                    [@ EXCEPT !.position = final_position,
                              !.orientation = final_orientation]])

\* apply_move_sequence on a ship that is not sunk (game.py 112-164)
MoveLive(sz, d, order, hp, ship_to_move, sequence) ==
    MoveEnd(d, order, hp, ship_to_move, simulate_move(sz, hp, ship_to_move, sequence))

\* apply_move_sequence returning silently when no ship is at start_pos
MoveSequence_silent(sz, d, order, hp, start_pos, sequence) ==
    LET ship_to_move == DictGet(d, start_pos) IN
    IF ship_to_move = None
    THEN Return(d, order, hp)
    ELSE IF hp[ship_to_move].sunk
    THEN Return(d, order, hp)
    ELSE MoveLive(sz, d, order, hp, ship_to_move, sequence)

\* apply_move_sequence refusing a sunk ship with an error
MoveSequence_sunk_raises(sz, d, order, hp, start_pos, sequence) ==
    LET ship_to_move == DictGet(d, start_pos) IN
    IF ship_to_move = None
    THEN Raise(d, order, hp, BoardError("no_ship", start_pos, 0))
    ELSE IF hp[ship_to_move].sunk
    THEN Raise(d, order, hp, BoardError("sunk", start_pos, 0))
    ELSE MoveLive(sz, d, order, hp, ship_to_move, sequence)

\* apply_move_sequence without the test of the sunk flag
MoveSequence_moves_sunk(sz, d, order, hp, start_pos, sequence) ==
    LET ship_to_move == DictGet(d, start_pos) IN
    IF ship_to_move = None
    THEN Raise(d, order, hp, BoardError("no_ship", start_pos, 0))
    ELSE MoveLive(sz, d, order, hp, ship_to_move, sequence)

\* Board.apply_move_sequence(start_pos, sequence)
MoveSequence(sz, d, order, hp, start_pos, sequence) ==
    LET ship_to_move == DictGet(d, start_pos) IN
    IF ship_to_move = None
    THEN Raise(d, order, hp, BoardError("no_ship", start_pos, 0))
    ELSE IF hp[ship_to_move].sunk
    THEN Return(d, order, hp)
    ELSE MoveLive(sz, d, order, hp, ship_to_move, sequence)

\* apply_shoot flipping the flag of whatever ship it hits
ShootHeap_flips(sz, d, hp, target_pos) ==
    LET ship_hit == DictGet(d, target_pos) IN
    IF ~is_within_bounds(sz, target_pos) THEN hp
    ELSE IF ship_hit = None THEN hp
    ELSE [hp EXCEPT ![ship_hit] = [@ EXCEPT !.sunk = ~@]]

\* apply_shoot sinking every ship when it hits one
ShootHeap_sinks_all(sz, d, hp, target_pos) ==
    LET ship_hit == DictGet(d, target_pos) IN
    IF ~is_within_bounds(sz, target_pos) THEN hp
    ELSE IF ship_hit = None THEN hp
    ELSE [h \in DOMAIN hp |-> sink(hp[h])]

\* apply_shoot sinking the ship it hits and refloating the others
ShootHeap_refloats_others(sz, d, hp, target_pos) ==
    LET ship_hit == DictGet(d, target_pos) IN
    IF ~is_within_bounds(sz, target_pos) THEN hp
    ELSE IF ship_hit = None THEN hp
    ELSE [h \in DOMAIN hp |->
             IF h = ship_hit THEN sink(hp[h]) ELSE [hp[h] EXCEPT !.sunk = FALSE]]

\* What apply_shoot does to the Ship objects
ShootHeap(sz, d, hp, target_pos) ==
    LET ship_hit == DictGet(d, target_pos) IN
    IF ~is_within_bounds(sz, target_pos) THEN hp
    ELSE IF ship_hit = None THEN hp
    ELSE IF ~hp[ship_hit].sunk THEN [hp EXCEPT ![ship_hit] = sink(@)]
    ELSE hp

\* apply_shoot taking the ship it sinks off the position map
Shoot_removes(sz, d, order, hp, target_pos) ==
    Return(IF is_within_bounds(sz, target_pos) /\ DictGet(d, target_pos) # None
           THEN DictDel(d, target_pos)
           ELSE d,
           order, ShootHeap(sz, d, hp, target_pos))

\* Board.apply_shoot(target_pos)
Shoot(sz, d, order, hp, target_pos) ==
    Return(d, order, ShootHeap(sz, d, hp, target_pos))

\* Ship.__str__ without the status
Ship_str_no_status(s) ==
    <<"(", s.position.x, ", ", s.position.y, ", ", s.orientation, ")">>

\* Ship.__str__: the pieces of f"({x}, {y}, {orientation.name}){status}", in
\* order; status is " SUNK" or the empty string, which adds no piece
Ship_str(s) ==
    <<"(", s.position.x, ", ", s.position.y, ", ", s.orientation, ")">>
        \o (IF s.sunk THEN <<" SUNK">> ELSE <<>>)

\* the positions of P in increasing (x, y) order
RECURSIVE ByPosition(_)
ByPosition(P) ==
    IF P = {} THEN <<>>
    ELSE LET m == CHOOSE p \in P :
                     \A q \in P : p.x < q.x \/ (p.x = q.x /\ p.y <= q.y)
         IN <<m>> \o ByPosition(P \ {m})

\* the final states read off the position map, in position order
FinalShipStates_by_position(d, order, hp) ==
    [i \in 1 .. Cardinality(DOMAIN d) |-> Ship_str(hp[d[ByPosition(DOMAIN d)[i]]])]

\* Board.get_final_ship_states on a board with these fields
FinalShipStates(d, order, hp) ==
    [i \in 1 .. Len(order) |-> Ship_str(hp[order[i]])]

get_final_ship_states == FinalShipStates(ships, initial_ships_order, heap)

\* ---------------------------------------------------------------- inputs
Coord == (-1) .. size

PosInputs == {Position(x, y) : x \in Coord, y \in Coord}

\* sequences that come back to where they began: there and back, and the loop
\* of tests/test_game.py, test_board_apply_move_sequence_ends_at_start_pos
LoopSequences ==
    {<<"M", "L", "L", "M">>, <<"M", "R", "R", "M">>,
     <<"M", "R", "M", "R", "M", "R", "M">>}

SeqInputs ==
    UNION {[1 .. n -> MoveCommand] : n \in 0 .. MaxSeqLen} \cup LoopSequences

MoveCall(start_pos, sequence) ==
    [op |-> "apply_move_sequence", position |-> start_pos, sequence |-> sequence,
     ship |-> None, orientation |-> "N", sunk |-> FALSE]

ShootCall(target_pos) ==
    [op |-> "apply_shoot", position |-> target_pos, sequence |-> <<>>,
     ship |-> None, orientation |-> "N", sunk |-> FALSE]

AddCall(id, s) ==
    [op |-> "add_ship", position |-> s.position, sequence |-> <<>>,
     ship |-> id, orientation |-> s.orientation, sunk |-> s.sunk]

\* no call in progress: the board as constructed, or as the last call left it
NoCall ==
    [op |-> "none", position |-> Position(0, 0), sequence |-> <<>>,
     ship |-> None, orientation |-> "N", sunk |-> FALSE]

Snapshot == [ships |-> ships, order |-> initial_ships_order, heap |-> heap]

\* ---------------------------------------------------------------- actions
Init ==
    /\ size \in 1 .. MaxSize
    /\ ships = <<>>
    /\ initial_ships_order = <<>>
    /\ heap = <<>>
    /\ call = NoCall
    /\ raised = {}
    /\ pre = [ships |-> <<>>, order |-> <<>>, heap |-> <<>>]
    /\ arg = {}
    /\ pc = "api"
    /\ initial_ships = <<>>
    /\ ship_index = 0
    /\ operations = <<>>
    /\ op_index = 0
    /\ output = {}
    /\ exit_code = {}
    /\ lines = <<>>
    /\ sim = {}

\* The board after a call that ended as r
Ended(c, r) ==
    /\ call' = c
    /\ pre' = Snapshot
    /\ raised' = r.raised
    /\ ships' = r.ships
    /\ initial_ships_order' = r.order
    /\ heap' = r.heap
    /\ UNCHANGED size

\* add_ship with a newly constructed Ship, or with an object already registered
add_ship ==
    \/ /\ call = NoCall
       /\ Len(initial_ships_order) < MaxShips
       /\ \E p \in PosInputs, o \in Orientation, sk \in BOOLEAN :
            LET id == Len(initial_ships_order) + 1 IN
            /\ Ended(AddCall(id, Ship(p, o, sk)),
                     AddShip(size, ships, initial_ships_order, heap, id, Ship(p, o, sk)))
            /\ arg' = {AddShipArg(size, ships, initial_ships_order, heap,
                                   id, Ship(p, o, sk))}
       /\ UNCHANGED mainvars
    \/ /\ call = NoCall
       /\ \E id \in DOMAIN heap :
            /\ Ended(AddCall(id, heap[id]),
                     AddShip(size, ships, initial_ships_order, heap, id, heap[id]))
            /\ arg' = {AddShipArg(size, ships, initial_ships_order, heap,
                                   id, heap[id])}
       /\ UNCHANGED mainvars

apply_move_sequence ==
    /\ call = NoCall
    /\ \E start_pos \in PosInputs, sequence \in SeqInputs :
        Ended(MoveCall(start_pos, sequence),
              MoveSequence(size, ships, initial_ships_order, heap, start_pos, sequence))
    /\ arg' = {}
    /\ UNCHANGED mainvars

apply_shoot ==
    /\ call = NoCall
    /\ \E target_pos \in PosInputs :
        Ended(ShootCall(target_pos),
              Shoot(size, ships, initial_ships_order, heap, target_pos))
    /\ arg' = {}
    /\ UNCHANGED mainvars

\* The caller takes the outcome (main.py: _execute_operation logs a BoardError
\* and returns) and goes on to its next call.
NextCall ==
    /\ call # NoCall
    /\ call' = NoCall
    /\ raised' = {}
    /\ pre' = Snapshot
    /\ arg' = {}
    /\ UNCHANGED <<size, ships, initial_ships_order, heap>>
    /\ UNCHANGED mainvars

Next == add_ship \/ apply_move_sequence \/ apply_shoot \/ NextCall

Spec == Init /\ [][Next]_vars

\* ---------------------------------------------------------------- Board(size)
ValueError(msg) == [error |-> "ValueError", msg |-> msg]

\* __post_init__ refusing negative sizes only
PostInit_accepts_zero(sz) ==
    IF sz < 0
    THEN Raise(<<>>, <<>>, <<>>, ValueError("Board size must be positive."))
    ELSE Return(<<>>, <<>>, <<>>)

\* Board.__post_init__ on the size the generated __init__ has stored: it
\* raises before it creates _ships and _initial_ships_order, or creates both
\* empty
PostInit(sz) ==
    IF sz <= 0
    THEN Raise(<<>>, <<>>, <<>>, ValueError("Board size must be positive."))
    ELSE Return(<<>>, <<>>, <<>>)

\* the sizes a Board is asked for (tests/test_game.py: 10, 0, -5)
SizeInputs == (-1) .. MaxSize

\* Board(size) has been called: __init__ has stored the size and
\* __post_init__ has not run yet
InitBoard ==
    /\ size \in SizeInputs
    /\ ships = <<>>
    /\ initial_ships_order = <<>>
    /\ heap = <<>>
    /\ call = NoCall
    /\ raised = {}
    /\ pre = [ships |-> <<>>, order |-> <<>>, heap |-> <<>>]
    /\ arg = {}
    /\ pc = "new"
    /\ initial_ships = <<>>
    /\ ship_index = 0
    /\ operations = <<>>
    /\ op_index = 0
    /\ output = {}
    /\ exit_code = {}
    /\ lines = <<>>
    /\ sim = {}

\* __post_init__ runs: the caller gets the board, or the ValueError and no
\* board
post_init ==
    /\ pc = "new"
    /\ LET r == PostInit(size) IN
       /\ raised' = r.raised
       /\ ships' = r.ships
       /\ initial_ships_order' = r.order
       /\ heap' = r.heap
       /\ pc' = IF r.raised = {} THEN "api" ELSE "failed"
    /\ UNCHANGED <<size, call, pre, arg, initial_ships, ship_index, operations,
                   op_index, output, exit_code, lines, sim>>

\* the caller of a constructed board goes on with the calls of Next
board_calls == pc = "api" /\ Next

NextBoard == post_init \/ board_calls

SpecBoard == InitBoard /\ [][NextBoard]_vars

\* ---------------------------------------------------------------- main.py
\* the tuples parse_operation returns
MoveOp(p, sequence) == [type |-> "MOVE", position |-> p, sequence |-> sequence]

ShootOp(p) == [type |-> "SHOOT", position |-> p, sequence |-> <<>>]

\* the board call _execute_operation makes for an operation
OperationCall(operation) ==
    IF operation.type = "MOVE"
    THEN MoveCall(operation.position, operation.sequence)
    ELSE ShootCall(operation.position)

ExecuteOperation(sz, d, order, hp, operation) ==
    IF operation.type = "MOVE"
    THEN MoveSequence(sz, d, order, hp, operation.position, operation.sequence)
    ELSE Shoot(sz, d, order, hp, operation.position)

\* _execute_operation letting the BoardError through to main's handler
OperationOutcome_propagates(r) ==
    IF r.raised = {}
    THEN [pc |-> "operate", exit_code |-> {}]
    ELSE [pc |-> "exit", exit_code |-> {1}]

\* How main goes on after _execute_operation on a board call that ended as
\* r: the except clause logs a BoardError and returns
OperationOutcome(r) == [pc |-> "operate", exit_code |-> {}]

\* the placement loop logging the error and taking the next ship
PlacementOutcome_skips(r) == [pc |-> "place", exit_code |-> {}]

\* How main goes on after add_ship ended as r: sys.exit(1) on a BoardError
PlacementOutcome(r) ==
    IF r.raised = {}
    THEN [pc |-> "place", exit_code |-> {}]
    ELSE [pc |-> "exit", exit_code |-> {1}]

\* what the parser can hand over: coordinates are written without a sign
MainPositions(sz) == {Position(x, y) : x \in 0 .. sz, y \in 0 .. sz}

ShipLists(sz, most) ==
    UNION {[1 .. n -> {Ship(p, o, FALSE) : p \in MainPositions(sz), o \in Orientation}] :
              n \in 0 .. most}

MainSequences == UNION {[1 .. n -> MoveCommand] : n \in 1 .. MainMaxSeqLen}

OperationInputs(sz) ==
    {ShootOp(p) : p \in MainPositions(sz)}
        \cup {MoveOp(p, q) : p \in MainPositions(sz), q \in MainSequences}

OperationLists(sz) == UNION {[1 .. n -> OperationInputs(sz)] : n \in 0 .. MaxOps}

\* tests/test_game.py, test_board_get_final_ship_states, its first two ships
\* and its two operations
MovedAndSunk ==
    [size |-> 10,
     ships |-> <<Ship(Position(0, 0), "N", FALSE), Ship(Position(9, 2), "E", FALSE)>>,
     operations |-> <<MoveOp(Position(0, 0), <<"M", "R", "M", "L", "M", "M">>),
                      ShootOp(Position(9, 2))>>]

\* tests/test_game.py, test_board_apply_move_sequence_ends_at_start_pos, on
\* the board of the test and on the smallest board that holds the loop
LoopBackToStart(sz) ==
    [size |-> sz,
     ships |-> <<Ship(Position(1, 1), "N", FALSE)>>,
     operations |-> <<MoveOp(Position(1, 1), <<"M", "R", "M", "R", "M", "R", "M">>)>>]

\* every input with at most this many initial ships
BoundedInputs(most) ==
    {[size |-> sz, ships |-> sl, operations |-> ol] :
        sz \in 1 .. MainMaxSize,
        sl \in ShipLists(MainMaxSize, most),
        ol \in OperationLists(MainMaxSize)}

MainInputs ==
    BoundedInputs(MaxShips) \cup {MovedAndSunk, LoopBackToStart(3), LoopBackToStart(10)}

\* main() after _load_simulation_setup and Board(size), on one of these inputs
MainInit(inputs) ==
    /\ \E in \in inputs :
          /\ size = in.size
          /\ initial_ships = in.ships
          /\ operations = in.operations
    /\ ships = <<>>
    /\ initial_ships_order = <<>>
    /\ heap = <<>>
    /\ call = NoCall
    /\ raised = {}
    /\ pre = [ships |-> <<>>, order |-> <<>>, heap |-> <<>>]
    /\ arg = {}
    /\ pc = "place"
    /\ ship_index = 0
    /\ op_index = 0
    /\ output = {}
    /\ exit_code = {}
    /\ lines = <<>>
    /\ sim = {}

\* one turn of "for ship in initial_ships" (main.py 100-105)
place_initial_ship ==
    /\ pc = "place"
    /\ ship_index < Len(initial_ships)
    /\ LET k == ship_index + 1
           r == AddShip(size, ships, initial_ships_order, heap, k, initial_ships[k])
       IN
       /\ Ended(AddCall(k, initial_ships[k]), r)
       /\ arg' = {AddShipArg(size, ships, initial_ships_order, heap, k, initial_ships[k])}
       /\ ship_index' = k
       /\ pc' = PlacementOutcome(r).pc
       /\ exit_code' = PlacementOutcome(r).exit_code
    /\ UNCHANGED <<initial_ships, operations, op_index, output, lines, sim>>

\* the placement loop is over (main.py 107)
apply_operations ==
    /\ pc = "place"
    /\ ship_index = Len(initial_ships)
    /\ pc' = "operate"
    /\ UNCHANGED <<size, ships, initial_ships_order, heap, call, raised, pre, arg,
                   initial_ships, ship_index, operations, op_index, output, exit_code,
                   lines, sim>>

\* one turn of "for i, op in enumerate(operations, start=1)" (main.py 108-109)
execute_operation ==
    /\ pc = "operate"
    /\ op_index < Len(operations)
    /\ LET i == op_index + 1
           r == ExecuteOperation(size, ships, initial_ships_order, heap, operations[i])
       IN
       /\ Ended(OperationCall(operations[i]), r)
       /\ op_index' = i
       /\ pc' = OperationOutcome(r).pc
       /\ exit_code' = OperationOutcome(r).exit_code
    /\ arg' = {}
    /\ UNCHANGED <<initial_ships, ship_index, operations, output, lines, sim>>

\* _write_simulation_results(output_filepath, board.get_final_ship_states())
write_simulation_results ==
    /\ pc = "operate"
    /\ op_index = Len(operations)
    /\ output' = {get_final_ship_states}
    /\ pc' = "done"
    /\ exit_code' = {0}
    /\ UNCHANGED <<size, ships, initial_ships_order, heap, call, raised, pre, arg,
                   initial_ships, ship_index, operations, op_index, lines, sim>>

InitMain == MainInit(MainInputs)

NextMain ==
    place_initial_ship \/ apply_operations \/ execute_operation
        \/ write_simulation_results

SpecMain == InitMain /\ [][NextMain]_vars

\* ---------------------------------------------------------------- the loops, turn by turn
\* a loop that takes the same command again
NextIndex_stays(i) == i

\* enumerate(sequence): the index of the turn after turn i
NextIndex(i) == i + 1

\* runs on the board of size MaxSize: at most LiveMaxShips ships, at most
\* MaxOps operations, moves of at most StepMaxSeqLen commands
StepInputs ==
    {[size |-> MaxSize, ships |-> sl, operations |-> ol] :
        sl \in ShipLists(MainMaxSize, LiveMaxShips),
        ol \in UNION {[1 .. n ->
                  {ShootOp(p) : p \in MainPositions(MainMaxSize)}
                      \cup {MoveOp(p, q) : p \in MainPositions(MainMaxSize),
                               q \in UNION {[1 .. k -> MoveCommand] :
                                               k \in 1 .. StepMaxSeqLen}}] :
                  n \in 0 .. MaxOps}}

InitSteps == MainInit(StepInputs)

\* the operation the loop of main is at
Operation == operations[op_index + 1]

\* _execute_operation on a SHOOT: apply_shoot, which has no loop
shoot_operation ==
    /\ pc = "operate"
    /\ op_index < Len(operations)
    /\ Operation.type = "SHOOT"
    /\ Ended(OperationCall(Operation),
             ExecuteOperation(size, ships, initial_ships_order, heap, Operation))
    /\ op_index' = op_index + 1
    /\ arg' = {}
    /\ UNCHANGED <<pc, initial_ships, ship_index, operations, output, exit_code,
                   lines, sim>>

\* _execute_operation on a MOVE, up to the loop of _simulate_move: the call
\* ends before it (no ship, or a sunk one), or the loop begins on the copy
move_operation ==
    /\ pc = "operate"
    /\ op_index < Len(operations)
    /\ Operation.type = "MOVE"
    /\ LET ship_to_move == DictGet(ships, Operation.position) IN
       IF ship_to_move = None \/ heap[ship_to_move].sunk
       THEN /\ Ended(OperationCall(Operation),
                     ExecuteOperation(size, ships, initial_ships_order, heap, Operation))
            /\ op_index' = op_index + 1
            /\ UNCHANGED <<pc, sim>>
       ELSE /\ Ended(OperationCall(Operation),
                     Return(ships, initial_ships_order, heap))
            /\ sim' = {[heap |-> WorkingCopy(heap, ship_to_move).heap,
                        handle |-> WorkingCopy(heap, ship_to_move).handle,
                        ship |-> ship_to_move,
                        i |-> 1]}
            /\ pc' = "simulate"
            /\ UNCHANGED op_index
    /\ arg' = {}
    /\ UNCHANGED <<initial_ships, ship_index, operations, output, exit_code, lines>>

\* how apply_move_sequence ends, given how _simulate_move ended
EndMove(w, simulated) ==
    LET r == MoveEnd(ships, initial_ships_order, heap, w.ship, simulated) IN
    /\ raised' = r.raised
    /\ ships' = r.ships
    /\ initial_ships_order' = r.order
    /\ heap' = r.heap
    /\ sim' = {}
    /\ op_index' = op_index + 1
    /\ pc' = OperationOutcome(r).pc

\* one turn of the loop of _simulate_move: the command is applied to the
\* copy, or the loop is left by the BoardError
simulate_command ==
    /\ pc = "simulate"
    /\ \E w \in sim :
          /\ w.i <= Len(call.sequence)
          /\ LET r == SimStep(size, w.heap, w.handle, call.sequence[w.i]) IN
             IF r.ok
             THEN /\ sim' = {[w EXCEPT !.heap = r.heap, !.i = NextIndex(w.i)]}
                  /\ UNCHANGED <<ships, initial_ships_order, heap, raised, op_index, pc>>
             ELSE EndMove(w, [ok |-> FALSE, heap |-> r.heap, handle |-> w.handle,
                              step |-> w.i, at |-> r.at])
    /\ UNCHANGED <<size, call, pre, arg, initial_ships, ship_index, operations,
                   output, exit_code, lines>>

\* the loop is over: _simulate_move returns, apply_move_sequence tests the
\* destination and commits
commit_move ==
    /\ pc = "simulate"
    /\ \E w \in sim :
          /\ w.i > Len(call.sequence)
          /\ EndMove(w, [ok |-> TRUE, heap |-> w.heap, handle |-> w.handle,
                         step |-> 0, at |-> w.heap[w.handle].position])
    /\ UNCHANGED <<size, call, pre, arg, initial_ships, ship_index, operations,
                   output, exit_code, lines>>

NextSteps ==
    place_initial_ship \/ apply_operations \/ shoot_operation \/ move_operation
        \/ simulate_command \/ commit_move \/ write_simulation_results

\* one thread, no call that waits: a step that can be taken is taken
LiveSpecSteps == InitSteps /\ [][NextSteps]_vars /\ WF_vars(NextSteps)

\* ---------------------------------------------------------------- parser.py
\* A line is the sequence of its characters, the newline that list(file)
\* leaves at its end included.
ParseError(line, msg) == [error |-> "ParseError", line |-> line, msg |-> msg]

\* what str.strip() removes and \s matches
IsSpace(c) == c \in {" ", "\t", "\n"}

\* what \d matches
IsDigit(c) == c \in {"0", "1", "2", "3", "4", "5", "6", "7", "8", "9"}

DigitValue(c) ==
    CASE c = "0" -> 0 [] c = "1" -> 1 [] c = "2" -> 2 [] c = "3" -> 3
      [] c = "4" -> 4 [] c = "5" -> 5 [] c = "6" -> 6 [] c = "7" -> 7
      [] c = "8" -> 8 [] c = "9" -> 9

\* str.upper() on one character
Upper(c) ==
    CASE c = "n" -> "N" [] c = "e" -> "E" [] c = "s" -> "S" [] c = "w" -> "W"
      [] c = "l" -> "L" [] c = "r" -> "R" [] c = "m" -> "M"
      [] OTHER -> c

\* str.strip()
Strip(s) ==
    LET keep == {i \in 1 .. Len(s) : ~IsSpace(s[i])} IN
    IF keep = {} THEN <<>>
    ELSE SubSeq(s, CHOOSE i \in keep : \A j \in keep : i <= j,
                   CHOOSE i \in keep : \A j \in keep : j <= i)

\* int() of a string of decimal digits
RECURSIVE DigitsToInt(_)
DigitsToInt(s) ==
    IF s = <<>> THEN 0
    ELSE 10 * DigitsToInt(SubSeq(s, 1, Len(s) - 1)) + DigitValue(s[Len(s)])

\* What the three patterns are made of: a character of a class, once or
\* (greedily) as often as it comes, at least min times. No character is in
\* two classes that meet in a pattern, so what the greedy quantifiers take
\* is the only way to match.
Lit(c) == [class |-> {c}, min |-> 1, many |-> FALSE]

\* \s*
Spaces == [class |-> {" ", "\t", "\n"}, min |-> 0, many |-> TRUE]

\* \d+
Digits ==
    [class |-> {"0", "1", "2", "3", "4", "5", "6", "7", "8", "9"},
     min |-> 1, many |-> TRUE]

\* \(\s*(\d+)\s*,\s*(\d+)\s* : what the three patterns begin with; groups 1
\* and 2 are elements 3 and 7
PairPattern ==
    <<Lit("("), Spaces, Digits, Spaces, Lit(","), Spaces, Digits, Spaces>>

\* group 3 is element 11
SHIP_REGEX ==
    PairPattern \o
        <<Lit(","), Spaces,
          [class |-> {"N", "E", "S", "W", "n", "e", "s", "w"},
           min |-> 1, many |-> FALSE],
          Spaces, Lit(")")>>

COORD_REGEX == PairPattern \o <<Lit(")")>>

\* group 3 is element 11
MOVE_REGEX ==
    PairPattern \o
        <<Lit(")"), Spaces,
          [class |-> {"L", "R", "M", "l", "r", "m"}, min |-> 1, many |-> TRUE]>>

\* the index after the characters of the class that begin at index i
RECURSIVE SkipClass(_, _, _)
SkipClass(s, i, class) ==
    IF i <= Len(s) /\ s[i] \in class THEN SkipClass(s, i + 1, class) ELSE i

\* where element e of a pattern, begun at index i, ends
ElementEnd(s, i, e) ==
    IF e.many THEN SkipClass(s, i, e.class)
    ELSE IF i <= Len(s) /\ s[i] \in e.class THEN i + 1
    ELSE i

\* pattern.match(s, i) from element k on; marks holds the indices at which
\* the elements before k began and, after a match, match.end() as its last
RECURSIVE MatchFrom(_, _, _, _, _)
MatchFrom(s, i, pattern, k, marks) ==
    IF k > Len(pattern)
    THEN [ok |-> TRUE, marks |-> Append(marks, i)]
    ELSE IF ElementEnd(s, i, pattern[k]) - i < pattern[k].min
    THEN [ok |-> FALSE, marks |-> marks]
    ELSE MatchFrom(s, ElementEnd(s, i, pattern[k]), pattern, k + 1,
                   Append(marks, i))

Match(s, i, pattern) == MatchFrom(s, i, pattern, 1, <<>>)

\* match.start() and match.end(), as indices of the sequence
MatchStart(m) == m.marks[1]

MatchEnd(m) == m.marks[Len(m.marks)]

\* what element k of the pattern took
Group(s, m, k) == SubSeq(s, m.marks[k], m.marks[k + 1] - 1)

\* Position(int(x), int(y)) of groups 1 and 2
MatchPosition(s, m) ==
    Position(DigitsToInt(Group(s, m, 3)), DigitsToInt(Group(s, m, 7)))

\* pattern.fullmatch(s), given pattern.match(s)
FullMatch(s, m) == m.ok /\ MatchEnd(m) = Len(s) + 1

RECURSIVE ShipsLoop(_, _, _)
\* the body of the loop for a match: the text before it, then the ship
ShipsMatched(s, last_match_end, found, match) ==
    IF Strip(SubSeq(s, last_match_end, MatchStart(match) - 1)) # <<>>
    THEN [ok |-> FALSE, ships |-> <<>>]
    ELSE ShipsLoop(s, MatchEnd(match),
                   Append(found, Ship(MatchPosition(s, match),
                                      Upper(Group(s, match, 11)[1]), FALSE)))

\* the next match of finditer among the indices where SHIP_REGEX matches,
\* or the text after the last match when there is none
ShipsNext(s, last_match_end, found, starts) ==
    IF starts = {}
    THEN IF Strip(SubSeq(s, last_match_end, Len(s))) # <<>>
         THEN [ok |-> FALSE, ships |-> <<>>]
         ELSE [ok |-> TRUE, ships |-> found]
    ELSE ShipsMatched(s, last_match_end, found,
                      Match(s, CHOOSE i \in starts : \A j \in starts : i <= j,
                            SHIP_REGEX))

\* the loop over SHIP_REGEX.finditer(line), from the end of the last match
ShipsLoop(s, last_match_end, found) ==
    ShipsNext(s, last_match_end, found,
              {i \in last_match_end .. Len(s) : Match(s, i, SHIP_REGEX).ok})

parse_initial_ships(line) ==
    IF Strip(line) = <<>>
    THEN [ok |-> TRUE, ships |-> <<>>]
    ELSE ShipsLoop(Strip(line), 1, <<>>)

parse_move_sequence(sequence_str) ==
    [k \in 1 .. Len(sequence_str) |-> Upper(sequence_str[k])]

\* what parse_operation does with the two matches: MOVE_REGEX.fullmatch,
\* then COORD_REGEX.fullmatch, then the ParseError
OperationMatched(line, move_match, shoot_match) ==
    IF FullMatch(line, move_match)
    THEN [ok |-> TRUE,
          op |-> MoveOp(MatchPosition(line, move_match),
                        parse_move_sequence(Group(line, move_match, 11)))]
    ELSE IF FullMatch(line, shoot_match)
    THEN [ok |-> TRUE, op |-> ShootOp(MatchPosition(line, shoot_match))]
    ELSE [ok |-> FALSE, op |-> ShootOp(Position(0, 0))]

\* parse_operation on a stripped line that is not empty
parse_operation(line) ==
    OperationMatched(line, Match(line, 1, MOVE_REGEX), Match(line, 1, COORD_REGEX))

\* parse_board_size: int() of the stripped line (an optional sign, then
\* digits), which must be positive
parse_board_size(line) ==
    LET stripped_line == Strip(line)
        signed == stripped_line # <<>> /\ stripped_line[1] \in {"+", "-"}
        digits == IF signed THEN Tail(stripped_line) ELSE stripped_line
        value == IF signed /\ stripped_line[1] = "-"
                 THEN 0 - DigitsToInt(digits)
                 ELSE DigitsToInt(digits)
    IN
    IF digits = <<>> \/ \E k \in 1 .. Len(digits) : ~IsDigit(digits[k])
    THEN [ok |-> FALSE, size |-> 0]
    ELSE IF value <= 0
    THEN [ok |-> FALSE, size |-> 0]
    ELSE [ok |-> TRUE, size |-> value]

\* how parse_input_file ends
ParseFails(e) == [raised |-> {e}, size |-> 0, ships |-> <<>>, operations |-> <<>>]

ParseReturns(sz, found, ops) ==
    [raised |-> {}, size |-> sz, ships |-> found, operations |-> ops]

\* the loop over the operation lines numbering only the lines it parses
RECURSIVE OperationsLoop_counts_parsed(_, _, _, _, _)
OperationsLoop_counts_parsed(sz, found, file, i, ops) ==
    IF i > Len(file)
    THEN ParseReturns(sz, found, ops)
    ELSE IF Strip(file[i]) = <<>>
    THEN OperationsLoop_counts_parsed(sz, found, file, i + 1, ops)
    ELSE IF parse_operation(Strip(file[i])).ok
    THEN OperationsLoop_counts_parsed(sz, found, file, i + 1,
                        Append(ops, parse_operation(Strip(file[i])).op))
    ELSE ParseFails(ParseError(Len(ops) + 3, "operation"))

\* for i, line in enumerate(operation_lines, start=3), at line i of the file
RECURSIVE OperationsLoop(_, _, _, _, _)
OperationsLoop(sz, found, file, i, ops) ==
    IF i > Len(file)
    THEN ParseReturns(sz, found, ops)
    ELSE IF Strip(file[i]) = <<>>
    THEN OperationsLoop(sz, found, file, i + 1, ops)
    ELSE IF parse_operation(Strip(file[i])).ok
    THEN OperationsLoop(sz, found, file, i + 1,
                        Append(ops, parse_operation(Strip(file[i])).op))
    ELSE ParseFails(ParseError(i, "operation"))

\* taking the first line after the size that is not blank as the ships line
ShipsLineAt_first_filled(file) ==
    LET filled == {i \in 2 .. Len(file) : Strip(file[i]) # <<>>} IN
    IF filled = {} THEN Len(file)
    ELSE CHOOSE i \in filled : \A j \in filled : i <= j

\* where the initial-ships line is in a file of two lines or more: lines[1]
\* of the 0-based list
ShipsLineAt(file) == 2

parse_input_file(file) ==
    IF file = <<>>
    THEN ParseFails(ParseError(0, "Input file is empty."))
    ELSE IF ~parse_board_size(file[1]).ok
    THEN ParseFails(ParseError(1, "Board Size"))
    ELSE IF Len(file) < 2
    THEN ParseFails(ParseError(0,
            "Input file must contain at least board size and initial ships line."))
    ELSE LET at == ShipsLineAt(file)
             parsed == parse_initial_ships(file[at])
         IN
         IF ~parsed.ok
         THEN ParseFails(ParseError(2, "Initial Ships"))
         ELSE OperationsLoop(parse_board_size(file[1]).size, parsed.ships,
                             file, at + 1, <<>>)

\* the lines the input files are made of
\* a board size
SizeLine ==
    <<"2", "\n">>

\* a size that is not positive
ZeroLine ==
    <<"0", "\n">>

\* a negative size
NegativeLine ==
    <<"-", "1", "\n">>

\* a blank line
BlankLine ==
    <<" ", "\n">>

\* two ships, the second in lower case
ShipsLine ==
    <<"(", "0", ",", " ", "0", ",", " ", "N", ")", "(", "1", ",", "1", ",", "e", ")", "\n">>

\* a ship followed by something else
BadShipsLine ==
    <<"(", "0", ",", "0", ",", "N", ")", " ", "x", "\n">>

\* a shot, with spaces and a number of two digits
ShootLine ==
    <<"(", " ", "1", "0", " ", ",", " ", "1", " ", ")", "\n">>

\* a move in mixed case
MoveLine ==
    <<"(", "0", ",", "0", ")", " ", "m", "L", "\n">>

\* a move that ends the file without a newline
LastMoveLine ==
    <<"(", "1", ",", "0", ")", "M">>

\* a move with a command that does not exist
BadMoveLine ==
    <<"(", "0", ",", "0", ")", " ", "X", "\n">>

LineInputs ==
    {SizeLine, ZeroLine, NegativeLine, BlankLine, ShipsLine,
     BadShipsLine, ShootLine, MoveLine, LastMoveLine, BadMoveLine}

\* the lines that end with their newline
ClosedLines == LineInputs \ {LastMoveLine}

\* list(file): every line but the last ends with its newline
FileInputs ==
    UNION {[1 .. n -> ClosedLines] : n \in 0 .. MaxLines}
        \cup {Append(f, LastMoveLine) :
                 f \in UNION {[1 .. n -> ClosedLines] : n \in 0 .. MaxLines - 1}}

\* main() before _load_simulation_setup: no board yet, size has no meaning
InitParse ==
    /\ lines \in FileInputs
    /\ sim = {}
    /\ size = 1
    /\ ships = <<>>
    /\ initial_ships_order = <<>>
    /\ heap = <<>>
    /\ call = NoCall
    /\ raised = {}
    /\ pre = [ships |-> <<>>, order |-> <<>>, heap |-> <<>>]
    /\ arg = {}
    /\ pc = "load"
    /\ initial_ships = <<>>
    /\ ship_index = 0
    /\ operations = <<>>
    /\ op_index = 0
    /\ output = {}
    /\ exit_code = {}

\* _load_simulation_setup and Board(size) (main.py 92-96); a ParseError is
\* re-raised to main, which exits with 1 (main.py 113-116)
load_simulation_setup ==
    /\ pc = "load"
    /\ LET r == parse_input_file(lines) IN
       /\ raised' = r.raised
       /\ size' = IF r.raised = {} THEN r.size ELSE size
       /\ initial_ships' = r.ships
       /\ operations' = r.operations
       /\ pc' = IF r.raised = {} THEN "place" ELSE "exit"
       /\ exit_code' = IF r.raised = {} THEN {} ELSE {1}
    /\ UNCHANGED <<ships, initial_ships_order, heap, call, pre, arg, ship_index,
                   op_index, output, lines, sim>>

NextParse == load_simulation_setup

SpecParse == InitParse /\ [][NextParse]_vars

\* ---------------------------------------------------------------- properties
IsMove == call.op = "apply_move_sequence"

IsShoot == call.op = "apply_shoot"

\* the ship the call addressed, looked up in the board as the call found it
Target == DictGet(pre.ships, call.position)

TargetLive == Target # None /\ ~pre.heap[Target].sunk

BoardUnchanged ==
    /\ ships = pre.ships
    /\ initial_ships_order = pre.order
    /\ heap = pre.heap

RaisedMsg(msg) == \E e \in raised : e.msg = msg

\* The commands folded over a (position, orientation) with no board around
\* it: the state after the first k commands.
RECURSIVE FoldCommands(_, _, _)
FoldCommands(st, sequence, k) ==
    IF k = 0 THEN st
    ELSE LET p == FoldCommands(st, sequence, k - 1) IN
         CASE sequence[k] = "L" -> Ship_rotate_left(p)
           [] sequence[k] = "R" -> Ship_rotate_right(p)
           [] sequence[k] = "M" -> move_forward(p)

FoldAll(st, sequence) == FoldCommands(st, sequence, Len(sequence))

\* the indices of the M commands that put the folded position off the board
LeavesBoardAt(st, sequence) ==
    {i \in 1 .. Len(sequence) :
        /\ sequence[i] = "M"
        /\ ~is_within_bounds(size, FoldCommands(st, sequence, i).position)}

Least(S) == CHOOSE m \in S : \A n \in S : m <= n

\* the cells the folded path stands on after 1 .. Len - 1 commands
IntermediateCells(st, sequence) ==
    {FoldCommands(st, sequence, k).position : k \in 1 .. Len(sequence) - 1}

\* C1: no two registered ships share a position, every registered ship is
\* the map's entry at its own position, and every map entry is keyed by the
\* position of the ship it holds.
C1_MapAgreesWithShips ==
    /\ \A a, b \in DOMAIN heap :
          a # b => heap[a].position # heap[b].position
    /\ \A s \in DOMAIN heap : get_ship_at(heap[s].position) = s
    /\ \A p \in DOMAIN ships :
          ships[p] \in DOMAIN heap /\ heap[ships[p]].position = p

\* a move of one of two ships has been committed to another cell
C1_Witness ==
    /\ IsMove /\ raised = {} /\ TargetLive
    /\ Cardinality(DOMAIN heap) = 2
    /\ heap[Target].position # pre.heap[Target].position

\* C2: whenever apply_move_sequence fails, every ship's fields, the position
\* map and the placement-order list are what they were before the call.
C2_FailedMoveChangesNothing ==
    (IsMove /\ raised # {}) => BoardUnchanged

\* a move that rotated and advanced before a later step left the board
C2_Witness ==
    /\ IsMove /\ TargetLive /\ RaisedMsg("out_of_bounds")
    /\ \E e \in raised : e.step = 3
    /\ FoldCommands(pre.heap[Target], call.sequence, 2) # pre.heap[Target]
    /\ BoardUnchanged

\* C3: for a non-sunk ship the move fails as out of bounds exactly when some
\* M takes the folded position off the board, and the error names the 1-based
\* index (L and R counted) of the first such M and the cell it aimed at,
\* whatever the other cells hold.
C3_OutOfBoundsAtFirstBadStep ==
    (IsMove /\ TargetLive) =>
        LET st == pre.heap[Target]
            bad == LeavesBoardAt(st, call.sequence)
        IN
        /\ RaisedMsg("out_of_bounds") <=> bad # {}
        /\ bad # {} =>
              raised = {BoardError("out_of_bounds",
                                   FoldCommands(st, call.sequence, Least(bad)).position,
                                   Least(bad))}

\* the second command, after a rotation, leaves the board; a command follows
\* it and another ship is on the board
C3_Witness ==
    /\ IsMove /\ TargetLive
    /\ raised # {} /\ \A e \in raised : e.msg = "out_of_bounds" /\ e.step = 2
    /\ call.sequence[1] \in {"L", "R"}
    /\ Len(call.sequence) = 3
    /\ Cardinality(DOMAIN heap) = 2

\* C4: for a non-sunk ship whose sequence stays on the board the move fails
\* as a collision if and only if the final position differs from the start
\* and holds a different ship; nothing else makes it fail, ships on
\* intermediate cells included; and a collision leaves the board unchanged.
C4_OnlyDestinationCollides ==
    (IsMove /\ TargetLive /\ LeavesBoardAt(pre.heap[Target], call.sequence) = {}) =>
        LET st == pre.heap[Target]
            fin == FoldAll(st, call.sequence).position
            other == DictGet(pre.ships, fin)
        IN
        /\ RaisedMsg("collision") <=>
              (fin # st.position /\ other # None /\ other # Target)
        /\ RaisedMsg("collision") => BoardUnchanged
        /\ ~RaisedMsg("collision") => raised = {}

\* a move went through the cell of another ship and ended on a free cell
C4_Witness ==
    /\ IsMove /\ TargetLive /\ raised = {}
    /\ heap[Target].position # pre.heap[Target].position
    /\ \E c \in IntermediateCells(pre.heap[Target], call.sequence) :
          /\ c # pre.heap[Target].position
          /\ DictGet(pre.ships, c) \notin {None, Target}

\* C5: a successful move of a non-sunk ship leaves it with the position and
\* orientation obtained by folding the commands over the old ones, and when
\* the position changed, get_ship_at(old) is none and get_ship_at(new) is
\* that ship.
C5_CommitIsTheFold ==
    (IsMove /\ TargetLive /\ raised = {}) =>
        LET old == pre.heap[Target]
            fin == FoldAll(old, call.sequence)
        IN
        /\ heap[Target].position = fin.position
        /\ heap[Target].orientation = fin.orientation
        /\ fin.position # old.position =>
              /\ get_ship_at(old.position) = None
              /\ get_ship_at(fin.position) = Target

\* a three-command move with a rotation was committed to another cell
C5_Witness ==
    /\ IsMove /\ TargetLive /\ raised = {}
    /\ Len(call.sequence) = 3
    /\ \E i \in 1 .. 3 : call.sequence[i] \in {"L", "R"}
    /\ heap[Target].position # pre.heap[Target].position
    /\ heap[Target].orientation # pre.heap[Target].orientation

\* C6: a move addressed to a position no ship occupies, on the board or off
\* it, fails with the no-ship error for every sequence and changes nothing.
C6_NoShipAtStart ==
    (IsMove /\ Target = None) =>
        /\ raised = {BoardError("no_ship", call.position, 0)}
        /\ BoardUnchanged

\* a move addressed to a position off the board, with ships on the board
C6_Witness ==
    /\ IsMove /\ Target = None
    /\ ~is_within_bounds(size, call.position)
    /\ Len(call.sequence) = 2
    /\ Cardinality(DOMAIN heap) = 2
    /\ RaisedMsg("no_ship")

\* C7: a move addressed to a sunk ship raises nothing and changes nothing,
\* whatever the sequence.
C7_SunkShipDoesNotMove ==
    (IsMove /\ Target # None /\ pre.heap[Target].sunk) =>
        /\ raised = {}
        /\ BoardUnchanged

\* a sunk ship was addressed with a sequence that leaves the board
C7_Witness ==
    /\ IsMove /\ Target # None /\ pre.heap[Target].sunk
    /\ LeavesBoardAt(pre.heap[Target], call.sequence) # {}
    /\ raised = {}

\* C8: apply_shoot never raises, never touches the map or the order, and
\* resolves in one of four ways: off the board, nothing changes; on the
\* board with no ship, nothing changes; a non-sunk ship, its flag becomes
\* true and nothing else changes; a sunk ship, nothing changes.
C8_ShootResolution ==
    IsShoot =>
        /\ raised = {}
        /\ ships = pre.ships /\ initial_ships_order = pre.order
        /\ ~is_within_bounds(size, call.position) => heap = pre.heap
        /\ (is_within_bounds(size, call.position) /\ Target = None) =>
              heap = pre.heap
        /\ TargetLive => heap = [pre.heap EXCEPT ![Target].sunk = TRUE]
        /\ (Target # None /\ pre.heap[Target].sunk) => heap = pre.heap

\* a shot sank one of two ships, the other being sunk already
C8_Witness ==
    /\ IsShoot /\ TargetLive
    /\ heap[Target].sunk
    /\ \E s \in DOMAIN pre.heap : s # Target /\ pre.heap[s].sunk

\* C9: after apply_shoot(t), apply_shoot(t) again returns and leaves the
\* board as the first one left it; a ship that was hit is sunk after the
\* first shot.
C9_ShootIdempotent ==
    IsShoot =>
        /\ Shoot(size, ships, initial_ships_order, heap, call.position)
              = Return(ships, initial_ships_order, heap)
        /\ Target # None => heap[Target].sunk

\* a shot has just sunk a ship that was afloat, next to a ship still afloat
C9_Witness ==
    /\ IsShoot /\ TargetLive
    /\ heap[Target].sunk
    /\ \E s \in DOMAIN heap : ~heap[s].sunk

\* C10: once a ship is sunk, every later step leaves it registered, sunk,
\* and at the same position with the same orientation.
C10_SunkIsTerminal ==
    [][\A s \in DOMAIN heap :
          heap[s].sunk => (s \in DOMAIN heap' /\ heap'[s] = heap[s])]_vars

\* a sunk ship was addressed with a move that a ship afloat would have made
C10_Witness ==
    /\ IsMove /\ Target # None /\ pre.heap[Target].sunk
    /\ LeavesBoardAt(pre.heap[Target], call.sequence) = {}
    /\ FoldAll(pre.heap[Target], call.sequence).position \notin DOMAIN pre.ships
    /\ heap[Target] = pre.heap[Target]

IsAdd == call.op = "add_ship"

\* C11: a sunk ship stays on the position map through every call; a move of
\* another ship whose in-bounds sequence ends on a sunk ship's cell fails as
\* a collision; add_ship at a sunk ship's cell fails as occupied.
C11_SunkShipsAreObstacles ==
    /\ \A s \in DOMAIN pre.heap :
          pre.heap[s].sunk => get_ship_at(pre.heap[s].position) = s
    /\ (IsMove /\ TargetLive /\ LeavesBoardAt(pre.heap[Target], call.sequence) = {}) =>
          LET fin == FoldAll(pre.heap[Target], call.sequence).position
              other == DictGet(pre.ships, fin)
          IN (other # None /\ other # Target /\ pre.heap[other].sunk) =>
                /\ raised = {BoardError("collision", fin, 0)}
                /\ BoardUnchanged
    /\ (IsAdd /\ Target # None /\ pre.heap[Target].sunk) =>
          /\ raised = {BoardError("occupied", call.position, 0)}
          /\ BoardUnchanged

\* a move of a ship afloat ended on the cell of a sunk ship and was refused
C11_Witness ==
    /\ IsMove /\ TargetLive /\ RaisedMsg("collision")
    /\ \E e \in raised :
          /\ DictGet(ships, e.at) # None
          /\ heap[DictGet(ships, e.at)].sunk

\* C12: get_final_ship_states has one entry per placed ship, the i-th entry
\* being the i-th ship placed and giving its current x, y and orientation,
\* with the SUNK piece present exactly when the ship is sunk; a move or a
\* shoot changes neither the number nor the order of the entries, and a
\* successful add_ship appends one.
C12_FinalStatesInPlacementOrder ==
    LET out == get_final_ship_states IN
    /\ Len(out) = Cardinality(DOMAIN heap)
    /\ \A i \in 1 .. Len(out) :
          /\ SubSeq(out[i], 1, 7) =
                <<"(", heap[i].position.x, ", ", heap[i].position.y, ", ",
                  heap[i].orientation, ")">>
          /\ heap[i].sunk => (Len(out[i]) = 8 /\ out[i][8] = " SUNK")
          /\ ~heap[i].sunk => Len(out[i]) = 7
    /\ (IsMove \/ IsShoot) =>
          /\ Len(out) = Len(pre.order)
          /\ initial_ships_order = pre.order
    /\ IsAdd =>
          IF raised = {}
          THEN /\ Len(out) = Len(pre.order) + 1
               /\ initial_ships_order = Append(pre.order, call.ship)
          ELSE initial_ships_order = pre.order

\* the ship placed first now stands at a later position than the ship placed
\* second, and one of the two is sunk
C12_Witness ==
    /\ Cardinality(DOMAIN heap) = 2
    /\ ByPosition(DOMAIN ships)[1] = heap[2].position
    /\ IsMove /\ raised = {} /\ Target = 1
    /\ heap[1].position # pre.heap[1].position
    /\ heap[2].sunk /\ ~heap[1].sunk

\* the Ship passed to add_ship, as the call found it
AddArgBefore == Ship(call.position, call.orientation, call.sunk)

\* C13: add_ship fails exactly when the ship's position is off the board or
\* occupied, and then leaves the map and the order as they were; otherwise
\* it puts the ship on the map at its position and appends it to the order;
\* either way the ship passed, and every registered ship, keeps its fields.
C13_AddShipContract ==
    IsAdd =>
        LET fails == \/ ~is_within_bounds(size, call.position)
                     \/ call.position \in DOMAIN pre.ships
        IN
        /\ raised # {} <=> fails
        /\ fails =>
              /\ raised \subseteq
                    {BoardError("out_of_bounds", call.position, 0),
                     BoardError("occupied", call.position, 0)}
              /\ ships = pre.ships
              /\ initial_ships_order = pre.order
              /\ heap = pre.heap
        /\ ~fails =>
              /\ DOMAIN ships = (DOMAIN pre.ships) \cup {call.position}
              /\ ships[call.position] = call.ship
              /\ \A p \in DOMAIN pre.ships : ships[p] = pre.ships[p]
              /\ initial_ships_order = Append(pre.order, call.ship)
              /\ heap[call.ship] = AddArgBefore
        /\ arg = {AddArgBefore}
        /\ \A h \in DOMAIN pre.heap : heap[h] = pre.heap[h]

\* a new ship was refused because another ship stands on its position
C13_Witness ==
    /\ IsAdd /\ RaisedMsg("occupied")
    /\ call.ship \notin DOMAIN heap
    /\ Target # None
    /\ heap[Target].orientation # call.orientation

\* main() as the interpreter runs it: one thread, every handler returns, so a
\* step that can be taken is taken
LiveInputs == BoundedInputs(LiveMaxShips)

InitLive == MainInit(LiveInputs)

LiveSpecMain == InitLive /\ [][NextMain]_vars /\ WF_vars(NextMain)

\* one step of main() between the end of the placement and the end of the run
ExecutorStep ==
    /\ operations' = operations
    /\ op_index' # op_index =>
          /\ pc = "operate"
          /\ op_index' = op_index + 1
          /\ op_index' <= Len(operations)
          /\ call' = OperationCall(operations[op_index'])
          /\ pre' = Snapshot
          /\ raised' # {} =>
                /\ ships' = ships
                /\ initial_ships_order' = initial_ships_order
                /\ heap' = heap
          /\ pc' = "operate"
          /\ exit_code' = {}
          /\ output' = {}
    /\ pc = "operate" => pc' \in {"operate", "done"}
    /\ (pc' = "done" /\ pc # "done") =>
          /\ op_index = Len(operations)
          /\ op_index' = op_index
          /\ output' = {FinalShipStates(ships, initial_ships_order, heap)}
          /\ exit_code' = {0}

\* C14: the executor takes the operations one by one in input order, each as
\* the board call it names; a call that raises a BoardError leaves the board
\* as it was and the run goes on with the next operation; the final ship
\* states are written only after the last operation, and once the operations
\* have begun they are always written in the end.
C14_ExecutorIsolatesFailures ==
    [][ExecutorStep]_vars /\ ((pc = "operate") ~> (pc = "done"))

\* the run wrote its results after a move from a cell no initial ship stands
\* on had failed and the shot after it had sunk a ship
C14_Witness ==
    /\ pc = "done"
    /\ output # {}
    /\ Len(operations) = 2
    /\ op_index = 2
    /\ operations[1].type = "MOVE"
    /\ \A k \in 1 .. Len(initial_ships) :
          initial_ships[k].position # operations[1].position
    /\ call = ShootCall(operations[2].position)
    /\ raised = {}
    /\ \E h \in DOMAIN heap : heap[h].sunk /\ ~pre.heap[h].sunk

\* the initial ships that cannot be placed: off the board, or on the position
\* of an earlier initial ship
BadShips ==
    {k \in 1 .. Len(initial_ships) :
        \/ initial_ships[k].position.x < 0
        \/ initial_ships[k].position.x >= size
        \/ initial_ships[k].position.y < 0
        \/ initial_ships[k].position.y >= size
        \/ \E j \in 1 .. k - 1 :
              initial_ships[j].position = initial_ships[k].position}

\* C15: when an initial ship is off the board or on the position of an
\* earlier one, the run never gets past the placement: no operation is
\* applied, no final states are written, and once the first such ship has
\* been taken the run has ended with exit code 1.
C15_PlacementFailureIsFatal ==
    BadShips # {} =>
        /\ pc \in {"place", "exit"}
        /\ op_index = 0
        /\ output = {}
        /\ exit_code \subseteq {1}
        /\ pc = "exit" <=> exit_code = {1}
        /\ ship_index <= Least(BadShips)
        /\ ship_index = Least(BadShips) <=> pc = "exit"
        /\ \A h \in DOMAIN heap : heap[h] = initial_ships[h]

\* the run ended on the second initial ship, which stands on the board at the
\* position of the first, with operations still to apply
C15_Witness ==
    /\ pc = "exit"
    /\ exit_code = {1}
    /\ Len(initial_ships) = 2
    /\ initial_ships[1].position = initial_ships[2].position
    /\ 1 \in DOMAIN heap
    /\ RaisedMsg("occupied")
    /\ Len(operations) > 0

\* the run is that of MovedAndSunk
IsMovedAndSunk ==
    /\ size = MovedAndSunk.size
    /\ initial_ships = MovedAndSunk.ships
    /\ operations = MovedAndSunk.operations

\* C16: on a board of size 10 with ships (0,0,N) and (9,2,E) placed in that
\* order, the move (0,0) MRMLMM followed by the shot at (9,2) gives the final
\* states (1, 3, N) and (9, 2, E) SUNK, in that order.
C16_MovedAndSunkEndToEnd ==
    (IsMovedAndSunk /\ pc = "done") =>
        output = {<< <<"(", 1, ", ", 3, ", ", "N", ")">>,
                     <<"(", 9, ", ", 2, ", ", "E", ")", " SUNK">> >>}

\* that run wrote its results, neither operation having failed
C16_Witness ==
    /\ IsMovedAndSunk
    /\ pc = "done"
    /\ exit_code = {0}
    /\ op_index = 2
    /\ raised = {}
    /\ heap[2].sunk
    /\ heap[1].position # initial_ships[1].position

\* the run is that of LoopBackToStart on its own size of board
IsLoopBackToStart ==
    /\ initial_ships = LoopBackToStart(size).ships
    /\ operations = LoopBackToStart(size).operations

\* C17: M R M R M R M applied to the ship at (1,1) facing N, on a board that
\* holds the loop, raises nothing, leaves the ship at (1,1) facing W, and
\* the ship is still the one found at (1,1).
C17_LoopBackToStart ==
    (IsLoopBackToStart /\ size >= 3 /\ op_index = 1) =>
        /\ raised = {}
        /\ heap[1] = Ship(Position(1, 1), "W", FALSE)
        /\ get_ship_at(Position(1, 1)) = 1
        /\ DOMAIN ships = {Position(1, 1)}
        /\ initial_ships_order = <<1>>

\* the loop was applied on the board of size 3, whose far row and column it
\* runs along
C17_Witness ==
    /\ IsLoopBackToStart
    /\ size = 3
    /\ op_index = 1
    /\ call = MoveCall(Position(1, 1), <<"M", "R", "M", "R", "M", "R", "M">>)
    /\ pre.heap[1].orientation = "N"

\* the positions the geometry is tried on: the position the last call named
\* (any cell of the board or of the ring around it) and a neighbour of it on
\* the diagonal
GeomPositions ==
    {call.position, Position(call.position.x - 1, call.position.y + 1)}

\* every orientation, those of the ships on the board among them
AllOrientations == Orientation \cup {heap[s].orientation : s \in DOMAIN heap}

\* C18: rotate_left and rotate_right are inverses of each other, four
\* applications of either return the orientation, rotate_left cycles
\* N -> W -> S -> E -> N and rotate_right cycles N -> E -> S -> W -> N.
C18_RotationsAreInverse ==
    \A o \in AllOrientations :
        /\ rotate_left(rotate_right(o)) = o
        /\ rotate_right(rotate_left(o)) = o
        /\ rotate_left(rotate_left(rotate_left(rotate_left(o)))) = o
        /\ rotate_right(rotate_right(rotate_right(rotate_right(o)))) = o
        /\ rotate_left(o) =
              (CASE o = "N" -> "W" [] o = "W" -> "S" [] o = "S" -> "E" [] o = "E" -> "N")
        /\ rotate_right(o) =
              (CASE o = "N" -> "E" [] o = "E" -> "S" [] o = "S" -> "W" [] o = "W" -> "N")

\* a committed move that turned right and then left kept the orientation
C18_Witness ==
    /\ IsMove /\ TargetLive /\ raised = {}
    /\ call.sequence = <<"R", "L">>
    /\ heap[Target].orientation = pre.heap[Target].orientation

\* C19: move(p, o) is p plus to_vector(o), with N = (0, 1), E = (1, 0),
\* S = (0, -1), W = (-1, 0): one coordinate changes, by 1 in absolute value,
\* on the board and off it alike.
C19_MoveAddsUnitVector ==
    \A p \in GeomPositions, o \in AllOrientations :
        LET q == move(p, o)
            dx == q.x - p.x
            dy == q.y - p.y
        IN
        /\ <<dx, dy>> = to_vector(o)
        /\ to_vector(o) =
              (CASE o = "N" -> <<0, 1>> [] o = "E" -> <<1, 0>>
                 [] o = "S" -> <<0, -1>> [] o = "W" -> <<-1, 0>>)
        /\ \/ (dx = 0 /\ dy \in {-1, 1})
           \/ (dy = 0 /\ dx \in {-1, 1})

\* a step of a simulated move aimed at a cell with a negative coordinate
C19_Witness ==
    /\ IsMove /\ TargetLive
    /\ \E e \in raised :
          /\ e.msg = "out_of_bounds"
          /\ e.at.x = -1
          /\ e.at = move(FoldCommands(pre.heap[Target], call.sequence, e.step - 1).position,
                         "W")

\* C20: is_within_bounds(pos) is true exactly when both coordinates lie in
\* 0 .. size - 1, for positions with negative coordinates as for the others
\* and for every positive size.
C20_WithinBoundsIffInRange ==
    \A sz \in {size, size + 1}, p \in GeomPositions :
        is_within_bounds(sz, p) <=> (p.x \in 0 .. (sz - 1) /\ p.y \in 0 .. (sz - 1))

\* add_ship refused a ship whose y coordinate equals the size
C20_Witness ==
    /\ IsAdd /\ RaisedMsg("out_of_bounds")
    /\ call.position.y = size
    /\ call.position.x = 0
    /\ Cardinality(DOMAIN heap) = 1

\* the board that Board(size) gave, or the absence of one
ConstructedRight ==
    /\ pc = "failed" =>
          /\ size <= 0
          /\ raised = {ValueError("Board size must be positive.")}
          /\ ships = <<>> /\ initial_ships_order = <<>> /\ heap = <<>>
          /\ call = NoCall
    /\ pc = "api" => size >= 1
    /\ pc \in {"new", "failed", "api"}

\* one step of a caller of Board(size)
ConstructionStep ==
    /\ size' = size
    /\ pc = "new" =>
          /\ pc' = (IF size <= 0 THEN "failed" ELSE "api")
          /\ ships' = <<>>
          /\ initial_ships_order' = <<>>
          /\ heap' = <<>>
    /\ pc = "failed" => UNCHANGED vars
    /\ pc = "api" => pc' = "api"

\* C21: Board(size) raises a ValueError and gives no board when size <= 0;
\* otherwise the board starts with an empty position map and an empty
\* placement-order list; no call changes the size afterwards.
C21_BoardNeedsPositiveSize ==
    []ConstructedRight /\ [][ConstructionStep]_vars

\* Board(0) raised
C21_Witness ==
    /\ pc = "failed"
    /\ size = 0
    /\ raised # {}

\* what each operation line of LineInputs says, read off its text
OperationOf(line) ==
    CASE line = ShootLine -> ShootOp(Position(10, 1))
      [] line = MoveLine -> MoveOp(Position(0, 0), <<"M", "L">>)
      [] line = LastMoveLine -> MoveOp(Position(1, 0), <<"M">>)

\* the lines of the file from the third on that are neither blank nor an
\* operation
MalformedOperationLines ==
    {i \in 3 .. Len(lines) :
        lines[i] \notin {BlankLine, ShootLine, MoveLine, LastMoveLine}}

\* the operations that lines i .. Len(lines) of the file say, in file order
RECURSIVE OperationsFrom(_)
OperationsFrom(i) ==
    IF i > Len(lines) THEN <<>>
    ELSE IF lines[i] = BlankLine THEN OperationsFrom(i + 1)
    ELSE <<OperationOf(lines[i])>> \o OperationsFrom(i + 1)

\* the file has been read, and its first two lines are a size and a ships line
HeadParsed ==
    /\ pc # "load"
    /\ Len(lines) >= 2
    /\ lines[1] = SizeLine
    /\ lines[2] \in {BlankLine, ShipsLine}

\* C22: blank lines from line 3 on are skipped and the other lines give the
\* operations in file order; the first line that is no operation ends the
\* parse with an error naming its number in the file, blank lines counted.
C22_OperationLinesInOrder ==
    HeadParsed =>
        IF MalformedOperationLines = {}
        THEN /\ raised = {}
             /\ pc = "place"
             /\ operations = OperationsFrom(3)
        ELSE /\ raised = {ParseError(Least(MalformedOperationLines), "operation")}
             /\ pc = "exit"
             /\ exit_code = {1}

\* the parse ended on line 5, after a blank line 3 and a move on line 4
C22_Witness ==
    /\ HeadParsed
    /\ Len(lines) = 5
    /\ lines[3] = BlankLine
    /\ lines[4] = MoveLine
    /\ lines[5] = BadMoveLine
    /\ raised = {ParseError(5, "operation")}

\* C23: the second line of the file is the initial-ships line whatever it
\* holds: a blank one gives no ships, and a ships line after it, on line 3,
\* is refused as an operation of line 3; a file of the size line alone is
\* refused.
C23_SecondLineIsShipsLine ==
    (pc # "load" /\ Len(lines) >= 1 /\ lines[1] = SizeLine) =>
        /\ Len(lines) = 1 =>
              raised = {ParseError(0,
                 "Input file must contain at least board size and initial ships line.")}
        /\ (Len(lines) >= 2 /\ lines[2] \notin {BlankLine, ShipsLine}) =>
              raised = {ParseError(2, "Initial Ships")}
        /\ (Len(lines) >= 2 /\ lines[2] \in {BlankLine, ShipsLine}) =>
              /\ \A e \in raised : e.line >= 3
              /\ raised = {} =>
                    initial_ships =
                        IF lines[2] = BlankLine THEN <<>>
                        ELSE <<Ship(Position(0, 0), "N", FALSE),
                               Ship(Position(1, 1), "E", FALSE)>>
        /\ (Len(lines) >= 3 /\ lines[2] = BlankLine
                /\ lines[3] \in {ShipsLine, BadShipsLine}) =>
              raised = {ParseError(3, "operation")}
        /\ raised # {} <=> pc = "exit"
        /\ raised = {} => size = 2

\* a file of a size, a blank line and a ships line was refused at line 3
C23_Witness ==
    /\ lines = <<SizeLine, BlankLine, ShipsLine>>
    /\ pc = "exit"
    /\ raised = {ParseError(3, "operation")}

\* C24: a move of a non-sunk ship whose sequence stays on the board and ends
\* on the ship's own position raises nothing, whatever stands on the cells
\* of its path, and leaves the position map, the placement order and every
\* field of every ship as they were, save the orientation of the ship moved,
\* which becomes the folded one.
C24_MoveEndingAtStart ==
    (IsMove /\ TargetLive) =>
        LET st == pre.heap[Target]
            end == FoldAll(st, call.sequence)
        IN
        (LeavesBoardAt(st, call.sequence) = {} /\ end.position = st.position) =>
            /\ raised = {}
            /\ ships = pre.ships
            /\ initial_ships_order = pre.order
            /\ heap = [pre.heap EXCEPT ![Target] =
                          [@ EXCEPT !.orientation = end.orientation]]

\* the loop of seven commands went through a cell another ship stands on and
\* left the ship where it was, facing another way
C24_Witness ==
    /\ IsMove /\ TargetLive /\ raised = {}
    /\ Len(call.sequence) = 7
    /\ heap[Target].position = pre.heap[Target].position
    /\ heap[Target].orientation # pre.heap[Target].orientation
    /\ \E h \in DOMAIN pre.heap :
          /\ h # Target
          /\ pre.heap[h].position \in IntermediateCells(pre.heap[Target], call.sequence)

\* the loop of _simulate_move stands at a command of the sequence, or just
\* past the last one
LoopWithinSequence ==
    /\ pc = "simulate" <=> sim # {}
    /\ \A w \in sim : w.i \in 1 .. Len(call.sequence) + 1

\* one step of a run, as far as its progress goes: a turn of the loop of
\* _simulate_move goes on to the next command or ends the call; a shot is
\* over in the step it is made in; every call that ends moves the loop of
\* main to the next operation
ProgressStep ==
    /\ \A w \in sim :
          \/ /\ pc' = "simulate"
             /\ w.i <= Len(call.sequence)
             /\ \A v \in sim' : v.i = w.i + 1
             /\ op_index' = op_index
          \/ /\ pc' = "operate"
             /\ sim' = {}
             /\ op_index' = op_index + 1
    /\ (pc = "operate" /\ op_index < Len(operations)) =>
          IF operations[op_index + 1].type = "SHOOT"
          THEN pc' = "operate" /\ op_index' = op_index + 1
          ELSE \/ pc' = "operate" /\ op_index' = op_index + 1
               \/ pc' = "simulate" /\ op_index' = op_index
    /\ op_index' \in {op_index, op_index + 1}
    /\ op_index' <= Len(operations)
    /\ operations' = operations
    /\ pc' = "done" => op_index' = Len(operations)

\* C25: the loop of _simulate_move takes each command of the sequence at most
\* once, in order, and the call then returns or raises; apply_shoot is over
\* in one step; the run applies each operation once and comes to the end of
\* the list, where it writes its results.
C25_OperationsTerminate ==
    /\ []LoopWithinSequence
    /\ [][ProgressStep]_vars
    /\ \A k \in 0 .. (MaxOps - 1) :
          (pc = "simulate" /\ op_index = k) ~> (pc = "operate" /\ op_index = k + 1)
    /\ (pc = "operate") ~> (pc = "done" /\ op_index = Len(operations))

\* a run of two operations is over, the second of them a move of two
\* commands, both taken, that was committed to another cell
C25_Witness ==
    /\ pc = "done"
    /\ op_index = 2
    /\ call.op = "apply_move_sequence"
    /\ Len(call.sequence) = 2
    /\ raised = {}
    /\ \E h \in DOMAIN heap :
          /\ pre.heap[h].position = call.position
          /\ heap[h].position # call.position
          /\ heap[h].orientation # pre.heap[h].orientation

\* a step in which apply_move_sequence returns
MoveReturns ==
    /\ call = NoCall
    /\ call'.op = "apply_move_sequence"
    /\ raised' = {}

\* C26: when apply_move_sequence returns, the ship that stood at the start
\* position keeps its sunk flag, every other ship keeps all its fields and
\* its map entry, no other map entry appears, and the placement order and the
\* size of the board are what they were.
C26_MoveChangesOnlyTheShipMoved ==
    [][MoveReturns =>
          LET moved == DictGet(ships, call'.position) IN
          /\ moved # None
          /\ size' = size
          /\ initial_ships_order' = initial_ships_order
          /\ DOMAIN heap' = DOMAIN heap
          /\ heap'[moved].sunk = heap[moved].sunk
          /\ \A h \in (DOMAIN heap) \ {moved} : heap'[h] = heap[h]
          /\ \A p \in DOMAIN ships :
                ships[p] # moved => (p \in DOMAIN ships' /\ ships'[p] = ships[p])
          /\ \A p \in DOMAIN ships' :
                ships'[p] # moved => (p \in DOMAIN ships /\ ships[p] = ships'[p])
    ]_vars

\* a ship has moved to another cell and turned, next to a sunk ship
C26_Witness ==
    /\ IsMove /\ raised = {} /\ TargetLive
    /\ heap[Target].position # pre.heap[Target].position
    /\ heap[Target].orientation # pre.heap[Target].orientation
    /\ \E h \in DOMAIN heap : h # Target /\ heap[h].sunk

\* C27: apply_shoot raises nothing and leaves the position map, the
\* placement order and every ship's position and orientation as they were;
\* the only field it may change is the sunk flag of the ship at the target,
\* from false to true.
C27_ShootChangesOnlyTheTargetFlag ==
    IsShoot =>
        /\ raised = {}
        /\ ships = pre.ships
        /\ initial_ships_order = pre.order
        /\ DOMAIN heap = DOMAIN pre.heap
        /\ \A h \in DOMAIN heap :
              /\ heap[h].position = pre.heap[h].position
              /\ heap[h].orientation = pre.heap[h].orientation
              /\ h # Target => heap[h].sunk = pre.heap[h].sunk
              /\ pre.heap[h].sunk => heap[h].sunk

\* a shot sank one of two ships and the other is still afloat
C27_Witness ==
    /\ IsShoot
    /\ Target # None
    /\ ~pre.heap[Target].sunk
    /\ heap[Target].sunk
    /\ \E h \in DOMAIN heap : h # Target /\ ~heap[h].sunk

\* C28: in every reachable state every key of the position map, and the
\* position of the ship it holds, has both coordinates in 0 .. size - 1.
C28_ShipsStayOnTheBoard ==
    \A p \in DOMAIN ships :
        /\ 0 <= p.x /\ p.x < size /\ 0 <= p.y /\ p.y < size
        /\ 0 <= heap[ships[p]].position.x /\ heap[ships[p]].position.x < size
        /\ 0 <= heap[ships[p]].position.y /\ heap[ships[p]].position.y < size

\* a move has taken a ship to the far corner of the board of size 2
C28_Witness ==
    /\ size = 2
    /\ IsMove /\ raised = {} /\ TargetLive
    /\ pre.heap[Target].position # Position(1, 1)
    /\ heap[Target].position = Position(1, 1)
    /\ get_ship_at(Position(1, 1)) = Target

\* the ships a map holds
Held(d) == {d[p] : p \in DOMAIN d}

\* C29: the placement order lists each ship once, the map holds exactly the
\* listed ships, each under one key; a successful add_ship adds one ship to
\* both, every other call leaves the set of ships as it was, and add_ship of
\* a ship already registered fails.
C29_MapAndOrderHoldTheSameShips ==
    /\ \A i, j \in 1 .. Len(initial_ships_order) :
          initial_ships_order[i] = initial_ships_order[j] => i = j
    /\ Held(ships) = {initial_ships_order[i] : i \in 1 .. Len(initial_ships_order)}
    /\ \A p, q \in DOMAIN ships : ships[p] = ships[q] => p = q
    /\ Cardinality(DOMAIN ships) = Len(initial_ships_order)
    /\ (IsAdd /\ raised = {}) =>
          /\ Len(initial_ships_order) = Len(pre.order) + 1
          /\ Held(ships) = Held(pre.ships) \cup {call.ship}
          /\ call.ship \notin Held(pre.ships)
    /\ (IsAdd /\ raised # {}) => BoardUnchanged
    /\ (IsAdd /\ call.ship \in Held(pre.ships)) => raised # {}
    /\ (IsMove \/ IsShoot) =>
          /\ initial_ships_order = pre.order
          /\ Held(ships) = Held(pre.ships)

\* add_ship of the second of two registered ships was refused
C29_Witness ==
    /\ IsAdd
    /\ call.ship \in Held(pre.ships)
    /\ call.ship = 2
    /\ RaisedMsg("occupied")
    /\ Len(initial_ships_order) = 2

\* a step in which apply_move_sequence commits a move to another cell
MoveCommitted ==
    /\ MoveReturns
    /\ DictGet(ships, call'.position) # None
    /\ heap'[DictGet(ships, call'.position)].position # call'.position

\* C30: once a move has taken a ship from p to q, the board answers by the
\* ship's new position: a move addressed to p fails with "no ship", a shot
\* at p changes nothing, a move addressed to q is a move of that ship, and
\* a shot at q leaves that ship sunk.
C30_AddressedByCurrentPosition ==
    [][MoveCommitted =>
          LET moved == DictGet(ships, call'.position)
              p == call'.position
              q == heap'[moved].position
              now == Return(ships', initial_ships_order', heap')
          IN
          /\ DictGet(ships', p) = None
          /\ DictGet(ships', q) = moved
          /\ Shoot(size, ships', initial_ships_order', heap', p) = now
          /\ Shoot(size, ships', initial_ships_order', heap', q).heap[moved].sunk
          /\ \A sequence \in SeqInputs :
                /\ MoveSequence(size, ships', initial_ships_order', heap', p, sequence)
                      = Raise(ships', initial_ships_order', heap',
                              BoardError("no_ship", p, 0))
                /\ LET r == MoveSequence(size, ships', initial_ships_order', heap',
                                         q, sequence)
                   IN
                   /\ \A e \in r.raised : e.msg # "no_ship"
                   /\ (r.raised = {} /\ ~heap'[moved].sunk) =>
                         /\ r.heap[moved].position =
                               FoldAll(heap'[moved], sequence).position
                         /\ r.heap[moved].orientation =
                               FoldAll(heap'[moved], sequence).orientation
    ]_vars

\* one command has taken a ship to the next cell, beside a ship afloat
C30_Witness ==
    /\ IsMove /\ raised = {} /\ TargetLive
    /\ call.sequence = <<"M">>
    /\ heap[Target].position # call.position
    /\ get_ship_at(call.position) = None
    /\ \E h \in DOMAIN heap : h # Target /\ ~heap[h].sunk

\* C31: shots commute: after a shot at p, a shot at any position q leaves
\* the board as a shot at q followed by the shot at p would have left the
\* board the first shot found, and neither order raises an error.
C31_ShootsCommute ==
    IsShoot =>
        /\ [raised |-> raised, ships |-> ships, order |-> initial_ships_order,
            heap |-> heap]
              = Shoot(size, pre.ships, pre.order, pre.heap, call.position)
        /\ \A q \in PosInputs :
              LET other == Shoot(size, pre.ships, pre.order, pre.heap, q) IN
              /\ other.raised = {}
              /\ Shoot(size, ships, initial_ships_order, heap, q)
                    = Shoot(size, other.ships, other.order, other.heap,
                            call.position)

\* a shot has sunk a ship while another ship is afloat elsewhere on the board
C31_Witness ==
    /\ IsShoot /\ TargetLive
    /\ heap[Target].sunk
    /\ \E h \in DOMAIN heap :
          /\ h # Target
          /\ ~heap[h].sunk
          /\ heap[h].position # call.position
          /\ get_ship_at(heap[h].position) = h

\* C32: a move with no commands addressed to a ship afloat raises nothing
\* and leaves the map, the order and every field of every ship as they
\* were; addressed to a position without a ship it raises the "no ship"
\* error, and the board is as it was.
C32_EmptySequence ==
    (IsMove /\ call.sequence = <<>>) =>
        /\ TargetLive => (raised = {} /\ BoardUnchanged)
        /\ Target = None =>
              /\ raised = {BoardError("no_ship", call.position, 0)}
              /\ BoardUnchanged

\* a move with no commands has ended for a ship afloat, another ship on
\* the board
C32_Witness ==
    /\ IsMove /\ call.sequence = <<>>
    /\ TargetLive
    /\ raised = {}
    /\ heap[Target].position = call.position
    /\ Cardinality(DOMAIN heap) = 2

====
